---- MODULE Spec2Model ----
(***************************************************************************)
(* Model of the dependency bot: DependencyBot (dependency-bot.js) and      *)
(* SecurityChecker (security-checker.js).                                  *)
(*                                                                         *)
(* JavaScript strings are modelled as sequences of one-character strings,  *)
(* so that stripping, splitting, padding and matching are computed the way *)
(* the code computes them.  null and undefined are the one-element         *)
(* sequences Null and Undefined, which are no character sequences.         *)
(***************************************************************************)
EXTENDS Integers, Sequences, FiniteSets, TLC

VARIABLES
    \* ---- version normalisation (sanitizeVersion / makeVersionSemverCompatible)
    nInput,          \* the declared version expression under normalisation
    nEco,            \* "none" before, then the branch that normalised: "npm" | "python"
    nOut,            \* the string handed to semver.gt for the current version
    \* ---- SecurityChecker.checkVulnerability
    vOutcome,        \* what the oracle call produces (a failure kind or a text)
    vState,          \* "pending" | "returned" | "raised"
    vVerdict,        \* the verdict object returned to the caller
    \* ---- DependencyBot.getUpdateType
    tCurrent,        \* the current version handed to getUpdateType
    tLatest,         \* the latest version handed to getUpdateType
    tState,          \* "pending" | "classified"
    tOut,            \* the update type returned
    \* ---- DependencyBot.generateContextProtocolPR
    bFile,           \* the type of the manifest the pull request is about
    bDeps,           \* the approved dependencies handed to generateContextProtocolPR
    bState,          \* "pending" | "generated"
    bBody,           \* the sections of the body generated
    \* ---- DependencyBot.run / processRepository
    dryRun,          \* this.dryRun
    pc,              \* where run() is: "run" | "file" | "check" | "branch" | "commit" | "pull" | "done"
    reposLeft,       \* repositories run() has not processed yet
    packageFiles,    \* the manifest files getPackageFiles found in the current repository
    fileIdx,         \* position of the loop over packageFiles
    entryIdx,        \* position of the loop of checkDependencies over the entries or lines
    outdatedDeps,    \* outdatedDeps of the running checkDependencies
    allDependencies, \* allDependencies of processRepository
    safeDeps,        \* safeDeps of processRepository for the manifest just checked
    oracleCalls,     \* the checkVulnerability calls made for the current repository
    branchExists,    \* the update branch exists in the current repository
    commits,         \* the files committed to the update branch
    pulls,           \* the pull requests opened in the current repository
    report,          \* the audit report generated for the current repository
    repoError,       \* the stage whose exception the catch of processRepository caught
    log,             \* what each step of checkDependencies was given and did
    \* ---- cli.js
    cOptions,        \* program.opts(): the --repo locator and the --dry-run flag
    cEnv,            \* process.env restricted to the required variables
    cPc,             \* where the script is: "start" | "main" | "parsed" | "constructed" | "completed" | "exited"
    cExit,           \* <<>> while the process runs, then <<its exit code>>
    cTarget,         \* the {owner, repo} pair parseRepoUrl returned
    cBot,            \* the configuration the DependencyBot was constructed with
    cRan             \* bot.run() was called

normVars == <<nInput, nEco, nOut>>
verdictVars == <<vOutcome, vState, vVerdict>>
typeVars == <<tCurrent, tLatest, tState, tOut>>
bodyVars == <<bFile, bDeps, bState, bBody>>
repoVars == <<packageFiles, fileIdx, entryIdx, outdatedDeps, allDependencies, safeDeps,
              oracleCalls, branchExists, commits, pulls, report, repoError, log>>
botVars == <<dryRun, pc, reposLeft, repoVars>>
cliVars == <<cOptions, cEnv, cPc, cExit, cTarget, cBot, cRan>>

----------------------------------------------------------------------------
(* JavaScript values and string primitives                                 *)

Null == <<"NULL">>
Undefined == <<"UNDEFINED">>
NaNStr == <<"N", "a", "N">>

\* !v for the values a version can take: null, undefined and "" are falsy
Falsy(v) == v = Null \/ v = Undefined \/ v = <<>>

IsDigit(c) == c \in {"0", "1", "2", "3", "4", "5", "6", "7", "8", "9"}

DigitVal(c) ==
    CASE c = "0" -> 0 [] c = "1" -> 1 [] c = "2" -> 2 [] c = "3" -> 3
      [] c = "4" -> 4 [] c = "5" -> 5 [] c = "6" -> 6 [] c = "7" -> 7
      [] c = "8" -> 8 [] c = "9" -> 9

IsNumOrDot(c) == IsDigit(c) \/ c = "."

\* s.replace(/[^0-9.]/g, '')
StripNonNumeric(s) == SelectSeq(s, IsNumOrDot)

RECURSIVE SplitFrom(_, _, _, _)
SplitFrom(s, sep, i, cur) ==
    IF i > Len(s) THEN <<cur>>
    ELSE IF s[i] = sep THEN <<cur>> \o SplitFrom(s, sep, i + 1, <<>>)
    ELSE SplitFrom(s, sep, i + 1, Append(cur, s[i]))

\* s.split(sep) for a one-character separator: "".split(".") is [""]
Split(s, sep) == SplitFrom(s, sep, 1, <<>>)

RECURSIVE Join(_, _)
\* parts.join(sep)
Join(parts, sep) ==
    IF Len(parts) = 0 THEN <<>>
    ELSE IF Len(parts) = 1 THEN parts[1]
    ELSE parts[1] \o <<sep>> \o Join(Tail(parts), sep)

RECURSIVE LeadingDigits(_)
LeadingDigits(s) ==
    IF Len(s) = 0 \/ ~IsDigit(s[1]) THEN <<>>
    ELSE <<s[1]>> \o LeadingDigits(Tail(s))

RECURSIVE StripLeadingZeros(_)
StripLeadingZeros(s) ==
    IF Len(s) > 1 /\ s[1] = "0" THEN StripLeadingZeros(Tail(s)) ELSE s

\* parseInt(part, 10).toString(): the leading digit run without its leading
\* zeros, and "NaN" when the part does not start with a digit
ParseIntToString(part) ==
    IF LeadingDigits(part) = <<>> THEN NaNStr
    ELSE StripLeadingZeros(LeadingDigits(part))

RECURSIVE StrToNat(_)
\* the number a digit string denotes
StrToNat(s) ==
    IF Len(s) = 0 THEN 0
    ELSE StrToNat(SubSeq(s, 1, Len(s) - 1)) * 10 + DigitVal(s[Len(s)])

AllDigits(s) == \A i \in 1..Len(s) : IsDigit(s[i])

----------------------------------------------------------------------------
(* Version normalisation                                                   *)

SanitizePart(part) ==
    IF Len(part) > 1 /\ part[1] = "0" THEN ParseIntToString(part) ELSE part

\* DependencyBot.sanitizeVersion
SanitizeVersion(version) ==
    IF Falsy(version) THEN version
    ELSE LET parts == Split(StripNonNumeric(version), ".")
         IN  Join([i \in 1..Len(parts) |-> SanitizePart(parts[i])], ".")

RECURSIVE PadToThree(_)
PadToThree(parts) ==
    IF Len(parts) < 3 THEN PadToThree(Append(parts, <<"0">>)) ELSE parts

\* DependencyBot.makeVersionSemverCompatible
MakeVersionSemverCompatible(version) ==
    IF Falsy(version) THEN <<"0", ".", "0", ".", "0">>
    ELSE LET parts == Split(StripNonNumeric(version), ".")
             processedParts == [i \in 1..Len(parts) |-> ParseIntToString(parts[i])]
         IN  Join(PadToThree(processedParts), ".")

\* the current-version string the npm branch of checkDependencies compares
NpmComparedCurrent(version) == SanitizeVersion(StripNonNumeric(version))

\* the current-version string the python branch of checkDependencies compares
PythonComparedCurrent(version) == MakeVersionSemverCompatible(version)

----------------------------------------------------------------------------
(* The semver library, on the strings the bot hands it (digits, dots and   *)
(* "NaN" only: no prerelease or build suffix survives the stripping)       *)

NumericIdentifier(p) == Len(p) > 0 /\ AllDigits(p) /\ (Len(p) > 1 => p[1] # "0")

\* semver.valid(v) # null
SemverValid(v) ==
    /\ v # Null
    /\ v # Undefined
    /\ LET parts == Split(v, ".")
       IN  Len(parts) = 3 /\ \A i \in 1..3 : NumericIdentifier(parts[i])

SemverMajor(v) == StrToNat(Split(v, ".")[1])
SemverMinor(v) == StrToNat(Split(v, ".")[2])
SemverPatch(v) == StrToNat(Split(v, ".")[3])

\* semver.gt(a, b): "throw" (TypeError: Invalid Version), "true" or "false"
SemverGt(a, b) ==
    IF ~SemverValid(a) \/ ~SemverValid(b) THEN "throw"
    ELSE IF SemverMajor(a) # SemverMajor(b)
         THEN (IF SemverMajor(a) > SemverMajor(b) THEN "true" ELSE "false")
    ELSE IF SemverMinor(a) # SemverMinor(b)
         THEN (IF SemverMinor(a) > SemverMinor(b) THEN "true" ELSE "false")
    ELSE IF SemverPatch(a) > SemverPatch(b) THEN "true" ELSE "false"

----------------------------------------------------------------------------
(* SecurityChecker                                                         *)

\* the characters of a string literal
Chars(str) == [i \in 1..Len(str) |-> SubSeq(str, i, i)]

UpperAlpha == Chars("ABCDEFGHIJKLMNOPQRSTUVWXYZ")
LowerAlpha == Chars("abcdefghijklmnopqrstuvwxyz")

ToLowerChar(c) ==
    IF \E i \in 1..Len(UpperAlpha) : UpperAlpha[i] = c
    THEN LowerAlpha[CHOOSE i \in 1..Len(UpperAlpha) : UpperAlpha[i] = c]
    ELSE c

\* s.toLowerCase()
ToLowerCase(s) == [i \in 1..Len(s) |-> ToLowerChar(s[i])]

\* s.includes(needle)
Includes(s, needle) ==
    \E i \in 1..(Len(s) - Len(needle) + 1) : SubSeq(s, i, i + Len(needle) - 1) = needle

\* s.startsWith(prefix)
StartsWith(s, prefix) ==
    Len(s) >= Len(prefix) /\ SubSeq(s, 1, Len(prefix)) = prefix

\* isSafe with the advisory-identifier test made on the wrong case
IsSafeExprCveCase(lowerText) ==
    \/ (Includes(lowerText, Chars("safe")) /\ ~Includes(lowerText, Chars("unsafe")))
    \/ /\ ~Includes(lowerText, Chars("vulnerabilit"))
       /\ ~Includes(lowerText, Chars("CVE-"))
       /\ ~Includes(lowerText, Chars("security issue"))
       /\ ~Includes(lowerText, Chars("advisory"))

\* the isSafe expression of parseSecurityResponse; && binds tighter than ||
IsSafeExpr(lowerText) ==
    \/ (Includes(lowerText, Chars("safe")) /\ ~Includes(lowerText, Chars("unsafe")))
    \/ /\ ~Includes(lowerText, Chars("vulnerabilit"))
       /\ ~Includes(lowerText, Chars("cve-"))
       /\ ~Includes(lowerText, Chars("security issue"))
       /\ ~Includes(lowerText, Chars("advisory"))

\* \s of a regular expression, and the characters String.trim removes
IsWhitespace(c) == c \in {" ", "\t", "\n", "\r"}

RECURSIVE WhitespaceRun(_, _)
\* length of the longest run of whitespace of s from position i
WhitespaceRun(s, i) ==
    IF i > Len(s) \/ ~IsWhitespace(s[i]) THEN 0 ELSE 1 + WhitespaceRun(s, i + 1)

RECURSIVE NonWhitespaceRun(_, _)
\* [^\s]+ : length of the longest run of other characters of s from position i
NonWhitespaceRun(s, i) ==
    IF i > Len(s) \/ IsWhitespace(s[i]) THEN 0 ELSE 1 + NonWhitespaceRun(s, i + 1)

RECURSIVE SeparatorRun(_, _)
\* [:\s]* : length of the longest run of colons and whitespace from position i
SeparatorRun(s, i) ==
    IF i > Len(s) \/ ~(s[i] = ":" \/ IsWhitespace(s[i])) THEN 0
    ELSE 1 + SeparatorRun(s, i + 1)

RECURSIVE DigitRun(_, _)
\* \d+ : length of the longest run of digits of s from position i
DigitRun(s, i) ==
    IF i > Len(s) \/ ~IsDigit(s[i]) THEN 0 ELSE 1 + DigitRun(s, i + 1)

Least(S) == CHOOSE x \in S : \A y \in S : x <= y
Greatest(S) == CHOOSE x \in S : \A y \in S : y <= x

\* s.trim()
Trim(s) ==
    LET kept == {i \in 1..Len(s) : ~IsWhitespace(s[i])}
    IN  IF kept = {} THEN <<>> ELSE SubSeq(s, Least(kept), Greatest(kept))

\* s.indexOf(needle, from), positions counted from 1 and 0 for "not found"
IndexOfFrom(s, needle, from) ==
    LET hits == {i \in from..(Len(s) - Len(needle) + 1) :
                    SubSeq(s, i, i + Len(needle) - 1) = needle}
    IN  IF hits = {} THEN 0 ELSE Least(hits)

\* s.lastIndexOf(needle, upTo), positions counted from 1 and 0 for "not found"
LastIndexOfUpTo(s, needle, upTo) ==
    LET hits == {i \in 1..(Len(s) - Len(needle) + 1) :
                    i <= upTo /\ SubSeq(s, i, i + Len(needle) - 1) = needle}
    IN  IF hits = {} THEN 0 ELSE Greatest(hits)

\* (?:\n\s*\d+\.) matches at position p of text
SectionEndsAt(text, p) ==
    /\ p <= Len(text)
    /\ text[p] = "\n"
    /\ LET q == p + 1 + WhitespaceRun(text, p + 1)
           d == DigitRun(text, q)
       IN  d > 0 /\ q + d <= Len(text) /\ text[q + d] = "."

\* SecurityChecker.extractSectionContent: the pattern
\* title[:\s]*(.*?)(?:\n\s*\d+\.|$) with the flags i and s matches at the
\* first occurrence of the title in any case, its group runs to the first
\* "newline, number, full stop" or to the end of the text
ExtractSectionContent(text, sectionTitle) ==
    LET title == ToLowerCase(sectionTitle)
        at == IndexOfFrom(ToLowerCase(text), title, 1)
    IN  IF at = 0 THEN <<>>
        ELSE LET start == at + Len(title) + SeparatorRun(text, at + Len(title))
                 ends == {p \in start..Len(text) : SectionEndsAt(text, p)}
                 stop == IF ends = {} THEN Len(text) + 1 ELSE Least(ends)
             IN  Trim(SubSeq(text, start, stop - 1))

\* /CVE-\d{4}-\d{4,}/i at position i of s: the length matched, 0 for no match
CveMatchLen(s, i) ==
    IF /\ i + 12 <= Len(s)
       /\ ToLowerCase(SubSeq(s, i, i + 3)) = Chars("cve-")
       /\ AllDigits(SubSeq(s, i + 4, i + 7))
       /\ s[i + 8] = "-"
       /\ DigitRun(s, i + 9) >= 4
    THEN 9 + DigitRun(s, i + 9)
    ELSE 0

RECURSIVE CveMatches(_, _)
\* s.match(cvePattern) with the flag g, from position i: the matches in order
CveMatches(s, i) ==
    IF i > Len(s) THEN <<>>
    ELSE IF CveMatchLen(s, i) > 0
         THEN <<SubSeq(s, i, i + CveMatchLen(s, i) - 1)>> \o CveMatches(s, i + CveMatchLen(s, i))
         ELSE CveMatches(s, i + 1)

\* /(https?:\/\/[^\s]+)/ at position i of s: the length matched, 0 for no match
UrlMatchLen(s, i) ==
    LET scheme == IF i + 6 <= Len(s) /\ SubSeq(s, i, i + 6) = Chars("http://") THEN 7
                  ELSE IF i + 7 <= Len(s) /\ SubSeq(s, i, i + 7) = Chars("https://") THEN 8
                  ELSE 0
    IN  IF scheme > 0 /\ NonWhitespaceRun(s, i + scheme) > 0
        THEN scheme + NonWhitespaceRun(s, i + scheme)
        ELSE 0

RECURSIVE UrlMatches(_, _)
\* s.match(urlPattern) with the flag g, from position i: the matches in order
UrlMatches(s, i) ==
    IF i > Len(s) THEN <<>>
    ELSE IF UrlMatchLen(s, i) > 0
         THEN <<SubSeq(s, i, i + UrlMatchLen(s, i) - 1)>> \o UrlMatches(s, i + UrlMatchLen(s, i))
         ELSE UrlMatches(s, i + 1)

\* the terms looked for near an identifier, in the order they are tried
SeverityTerms == <<"critical", "high", "medium", "low", "severity">>

\* characters taken on each side of the start of an identifier
SeverityWindow == 50

\* the severity loop of extractCVEsFromText: the first term found in
\* sectionContent.substring(cveIndex - 50, cveIndex + 50), in any case
SeverityNear(section, cveIndex) ==
    LET from == IF cveIndex - 1 - SeverityWindow < 0 THEN 0 ELSE cveIndex - 1 - SeverityWindow
        to == IF cveIndex - 1 + SeverityWindow > Len(section) THEN Len(section)
              ELSE cveIndex - 1 + SeverityWindow
        window == ToLowerCase(SubSeq(section, from + 1, to))
        found == {k \in 1..Len(SeverityTerms) : Includes(window, Chars(SeverityTerms[k]))}
    IN  IF found = {} THEN "unknown" ELSE SeverityTerms[Least(found)]

NvdUrl == Chars("https://nvd.nist.gov/vuln/detail/")

NoDescription == Chars("No description available")

\* the body of the loop of extractCVEsFromText for the i-th match
CveRecord(section, cveMatches, urlMatches, i) ==
    LET cveId == cveMatches[i]
        cveIndex == IndexOfFrom(section, cveId, 1)
        startIndex == LastIndexOfUpTo(section, <<".">>, cveIndex)
        endIndex == IndexOfFrom(section, <<".">>, cveIndex)
        description == IF endIndex = 0 THEN <<>>
                       ELSE Trim(SubSeq(section, startIndex + 1, endIndex - 1))
        after == {k \in 1..Len(urlMatches) :
                     IndexOfFrom(section, urlMatches[k], 1) > cveIndex}
        url == IF after # {} THEN urlMatches[Least(after)]
               ELSE IF Len(urlMatches) >= i THEN urlMatches[i]
               ELSE <<>>
    IN  [id |-> cveId,
         url |-> IF url = <<>> THEN NvdUrl \o cveId ELSE url,
         description |-> IF description = <<>> THEN NoDescription ELSE description,
         severity |-> SeverityNear(section, cveIndex)]

\* SecurityChecker.extractCVEsFromText
ExtractCVEsFromText(text, sectionTitle) ==
    LET section == ExtractSectionContent(text, sectionTitle)
        cveMatches == CveMatches(section, 1)
        urlMatches == UrlMatches(section, 1)
    IN  IF section = <<>> THEN <<>>
        ELSE [i \in 1..Len(cveMatches) |-> CveRecord(section, cveMatches, urlMatches, i)]

\* SecurityChecker.parseSecurityResponse, for a string responseText
ParseSecurityResponse(responseText) ==
    [safe |-> IsSafeExpr(ToLowerCase(responseText)),
     currentVersionVulnerabilities |->
         ExtractCVEsFromText(responseText, Chars("CURRENT VERSION VULNERABILITIES")),
     newVersionVulnerabilities |->
         ExtractCVEsFromText(responseText, Chars("NEW VERSION VULNERABILITIES")),
     securityImprovements |->
         ExtractSectionContent(responseText, Chars("SECURITY IMPROVEMENT")),
     overallAssessment |->
         ExtractSectionContent(responseText, Chars("OVERALL ASSESSMENT")),
     details |-> responseText]

ErrorDetails == Chars("Error checking security")

\* what the oracle call can produce: the API call rejects, the response has
\* no content block, the block has no text, or the block carries a text
OutcomeKinds == {"apiThrow", "noContent", "noText", "text"}

\* the try block of checkVulnerability: an exception, or the parsed verdict.
\* response.content[0].text of a missing block and undefined.toLowerCase()
\* both raise a TypeError
TryAnalysis(outcome) ==
    IF outcome.kind = "text"
    THEN [threw |-> FALSE, value |-> ParseSecurityResponse(outcome.text)]
    ELSE [threw |-> TRUE, value |-> [safe |-> FALSE, details |-> <<>>]]

\* checkVulnerability without its catch block
CheckVulnerabilityNoCatch(outcome) ==
    LET r == TryAnalysis(outcome)
    IN  [raised |-> r.threw, verdict |-> r.value]

\* SecurityChecker.checkVulnerability
CheckVulnerability(outcome) ==
    LET r == TryAnalysis(outcome)
    IN  IF r.threw
        THEN [raised |-> FALSE, verdict |-> [safe |-> FALSE, details |-> ErrorDetails]]
        ELSE [raised |-> FALSE, verdict |-> r.value]

----------------------------------------------------------------------------
(* DependencyBot: classification, manifest grammar and manifest rewrite    *)

\* split('.').map(Number) of a sanitized string, padded with 0 to three
NumberParts(v) ==
    LET p == Split(v, ".")
        nums == [i \in 1..Len(p) |-> StrToNat(p[i])]
    IN  [i \in 1..(IF Len(p) < 3 THEN 3 ELSE Len(p)) |->
            IF i <= Len(p) THEN nums[i] ELSE 0]

\* getUpdateType with the minor components compared before the major ones
GetUpdateTypeMinorFirst(current, latest) ==
    LET currentParts == NumberParts(SanitizeVersion(current))
        latestParts == NumberParts(SanitizeVersion(latest))
    IN  IF Falsy(current) \/ Falsy(latest) THEN "unknown"
        ELSE IF latestParts[2] > currentParts[2] THEN "minor"
        ELSE IF latestParts[1] > currentParts[1] THEN "major"
        ELSE "patch"

\* DependencyBot.getUpdateType: sanitizeVersion returns null and undefined
\* as they are, and their split raises into the catch block
GetUpdateType(current, latest) ==
    LET sanitizedCurrent == SanitizeVersion(current)
        sanitizedLatest == SanitizeVersion(latest)
    IN  IF SemverValid(sanitizedCurrent) /\ SemverValid(sanitizedLatest)
        THEN IF SemverMajor(sanitizedLatest) > SemverMajor(sanitizedCurrent) THEN "major"
             ELSE IF SemverMinor(sanitizedLatest) > SemverMinor(sanitizedCurrent) THEN "minor"
             ELSE "patch"
        ELSE IF sanitizedCurrent \in {Null, Undefined} \/ sanitizedLatest \in {Null, Undefined}
        THEN "unknown"
        ELSE LET currentParts == NumberParts(sanitizedCurrent)
                 latestParts == NumberParts(sanitizedLatest)
             IN  IF latestParts[1] > currentParts[1] THEN "major"
                 ELSE IF latestParts[2] > currentParts[2] THEN "minor"
                 ELSE "patch"

IsLetter(c) ==
    \E i \in 1..Len(UpperAlpha) : UpperAlpha[i] = c \/ LowerAlpha[i] = c

\* [a-zA-Z0-9_.-]
IsNameChar(c) == IsLetter(c) \/ IsDigit(c) \/ c \in {"_", ".", "-"}

\* [<>=!~]
IsOperatorChar(c) == c \in {"<", ">", "=", "!", "~"}

IsSpace(c) == c \in {" ", "\t", "\r"}

RECURSIVE NameRun(_, _)
\* length of the longest run of name characters of s from position i
NameRun(s, i) ==
    IF i > Len(s) \/ ~IsNameChar(s[i]) THEN 0 ELSE 1 + NameRun(s, i + 1)

RECURSIVE OperatorRun(_, _)
OperatorRun(s, i) ==
    IF i > Len(s) \/ ~IsOperatorChar(s[i]) THEN 0 ELSE 1 + OperatorRun(s, i + 1)

RECURSIVE NonDigitRun(_, _)
NonDigitRun(s, i) ==
    IF i > Len(s) \/ IsDigit(s[i]) THEN 0 ELSE 1 + NonDigitRun(s, i + 1)

\* line.match(/^([a-zA-Z0-9_.-]+)([<>=!~]+)([a-zA-Z0-9_.-]+)/): the three
\* classes are disjoint, so each greedy group is the maximal run
MatchRequirement(line) ==
    LET n == NameRun(line, 1)
        o == OperatorRun(line, n + 1)
        v == NameRun(line, n + o + 1)
    IN  IF n > 0 /\ o > 0 /\ v > 0
        THEN [matched |-> TRUE,
              name |-> SubSeq(line, 1, n),
              operator |-> SubSeq(line, n + 1, n + o),
              version |-> SubSeq(line, n + o + 1, n + o + v)]
        ELSE [matched |-> FALSE, name |-> <<>>, operator |-> <<>>, version |-> <<>>]

\* line.trim() === '' || line.startsWith('#')
BlankOrComment(line) ==
    (\A i \in 1..Len(line) : IsSpace(line[i])) \/ StartsWith(line, <<"#">>)

\* obj[name] of a mapping kept as a sequence of [name, version] entries
Lookup(entries, name) ==
    IF \E i \in 1..Len(entries) : entries[i].name = name
    THEN entries[CHOOSE i \in 1..Len(entries) : entries[i].name = name].version
    ELSE Undefined

\* obj[name] = version, for a name the mapping holds
Assign(entries, name, version) ==
    [i \in 1..Len(entries) |->
        IF entries[i].name = name THEN [name |-> name, version |-> version] ELSE entries[i]]

\* Object.entries({...dependencies, ...devDependencies}): the keys of
\* dependencies in order, their values overwritten by devDependencies, then
\* the keys devDependencies adds
MergedDependencies(packageJson) ==
    LET deps == packageJson.dependencies
        dev == packageJson.devDependencies
        first == [i \in 1..Len(deps) |->
                    IF Lookup(dev, deps[i].name) # Undefined
                    THEN [name |-> deps[i].name, version |-> Lookup(dev, deps[i].name)]
                    ELSE deps[i]]
        IsNew(e) == Lookup(deps, e.name) = Undefined
    IN  first \o SelectSeq(dev, IsNew)

\* dep.currentVersion.match(/^[^0-9]*/)?.[0] || ''
VersionPrefix(currentVersion) == SubSeq(currentVersion, 1, NonDigitRun(currentVersion, 1))

\* the npm iteration writing the bare latest version, without the prefix
ApplyNpmUpdateNoPrefix(packageJson, dep) ==
    IF dep.type = "dependency" /\ ~Falsy(Lookup(packageJson.dependencies, dep.name))
    THEN [packageJson EXCEPT !.dependencies = Assign(@, dep.name, dep.latestVersion)]
    ELSE IF dep.type = "devDependency" /\ ~Falsy(Lookup(packageJson.devDependencies, dep.name))
    THEN [packageJson EXCEPT !.devDependencies = Assign(@, dep.name, dep.latestVersion)]
    ELSE packageJson

\* one iteration of the npm loop of updateDependenciesInFile
ApplyNpmUpdate(packageJson, dep) ==
    IF dep.type = "dependency" /\ ~Falsy(Lookup(packageJson.dependencies, dep.name))
    THEN [packageJson EXCEPT !.dependencies =
             Assign(@, dep.name, VersionPrefix(dep.currentVersion) \o dep.latestVersion)]
    ELSE IF dep.type = "devDependency" /\ ~Falsy(Lookup(packageJson.devDependencies, dep.name))
    THEN [packageJson EXCEPT !.devDependencies =
             Assign(@, dep.name, VersionPrefix(dep.currentVersion) \o dep.latestVersion)]
    ELSE packageJson

RECURSIVE ApplyNpmUpdates(_, _)
ApplyNpmUpdates(packageJson, deps) ==
    IF Len(deps) = 0 THEN packageJson
    ELSE ApplyNpmUpdates(ApplyNpmUpdate(packageJson, Head(deps)), Tail(deps))

\* outdatedDeps.find(d => d.name === name): its index, 0 when there is none
FindDep(deps, name) ==
    IF \E i \in 1..Len(deps) : deps[i].name = name
    THEN CHOOSE i \in 1..Len(deps) :
            deps[i].name = name /\ \A j \in 1..(i - 1) : deps[j].name # name
    ELSE 0

\* the python iteration giving a line whose name is not approved the first
\* approved version
RewriteLineAnyName(line, deps) ==
    IF BlankOrComment(line) THEN line
    ELSE LET m == MatchRequirement(line)
         IN  IF ~m.matched THEN line
             ELSE IF FindDep(deps, m.name) = 0
                  THEN m.name \o m.operator \o deps[1].latestVersion
             ELSE m.name \o m.operator \o deps[FindDep(deps, m.name)].latestVersion

\* the python iteration putting the latest version in front of the old one
RewriteLineInsert(line, deps) ==
    IF BlankOrComment(line) THEN line
    ELSE LET m == MatchRequirement(line)
         IN  IF ~m.matched THEN line
             ELSE IF FindDep(deps, m.name) = 0 THEN line
             ELSE m.name \o m.operator \o deps[FindDep(deps, m.name)].latestVersion
                         \o <<".">> \o m.version

\* one iteration of the python loop of updateDependenciesInFile
RewriteLine(line, deps) ==
    IF BlankOrComment(line) THEN line
    ELSE LET m == MatchRequirement(line)
         IN  IF ~m.matched THEN line
             ELSE IF FindDep(deps, m.name) = 0 THEN line
             ELSE m.name \o m.operator \o deps[FindDep(deps, m.name)].latestVersion

\* DependencyBot.updateDependenciesInFile: the content committed.  An npm
\* content is the object JSON.parse gives and JSON.stringify writes back; a
\* python content is the text of the file
UpdateDependenciesInFile(file, deps) ==
    IF file.type = "npm"
    THEN [file.content EXCEPT !.json = ApplyNpmUpdates(@, deps)]
    ELSE LET lines == Split(file.content.text, "\n")
         IN  [file.content EXCEPT
                 !.text = Join([i \in 1..Len(lines) |-> RewriteLine(lines[i], deps)], "\n")]

\* outdatedDeps.filter(d => d.updateType === tier)
OfUpdateType(deps, tier) ==
    LET IsTier(d) == d.updateType = tier
    IN  SelectSeq(deps, IsTier)

\* the risk level with the minor group looked at first
RiskLevelMinorFirst(byType) ==
    IF Len(byType.minor) > 0 THEN "Medium"
    ELSE IF Len(byType.major) > 0 THEN "High"
    ELSE "Low"

\* byType.major.length > 0 ? 'High' : byType.minor.length > 0 ? 'Medium' : 'Low'
RiskLevel(byType) ==
    IF Len(byType.major) > 0 THEN "High"
    ELSE IF Len(byType.minor) > 0 THEN "Medium"
    ELSE "Low"

\* DependencyBot.generateContextProtocolPR: the sections of the body that
\* depend on the dependencies.  A tier table has one row for each dependency
\* of its group, in order, and is left out when the group is empty
GenerateContextProtocolPR(file, deps) ==
    LET byType == [major |-> OfUpdateType(deps, "major"),
                   minor |-> OfUpdateType(deps, "minor"),
                   patch |-> OfUpdateType(deps, "patch")]
        riskLevel == RiskLevel(byType)
    IN  [fileType |-> IF file = "npm" THEN "Node.js (package.json)"
                      ELSE "Python (requirements.txt)",
         total |-> Len(deps),
         majorCount |-> Len(byType.major),
         minorCount |-> Len(byType.minor),
         patchCount |-> Len(byType.patch),
         riskLevel |-> riskLevel,
         warning |-> riskLevel = "High",
         majorTable |-> byType.major,
         minorTable |-> byType.minor,
         patchTable |-> byType.patch]

----------------------------------------------------------------------------
(* Bounds and input pools                                                  *)

\* longest version string normalised in SpecNorm
MaxVersionLen == 4
\* most phrases in an oracle response text in SpecVerdict
MaxPhrases == 2

VersionAlphabet == {"0", "1", "2", ".", "^", "a"}

RECURSIVE StringsUpTo(_)
StringsUpTo(n) ==
    IF n = 0 THEN {<<>>}
    ELSE StringsUpTo(n - 1)
         \cup {Append(s, c) : s \in StringsUpTo(n - 1), c \in VersionAlphabet}

VersionInputs == StringsUpTo(MaxVersionLen)

Phrases ==
    {Chars("SAFE"), Chars("UNSAFE"), Chars("Unsafe."), Chars("CVE-2021-1234"),
     Chars("vulnerability"), Chars("security issue"), Chars("advisory"),
     Chars("no findings"),
     Chars("NEW VERSION VULNERABILITIES: CVE-2021-1234 severity n/a."),
     Chars("\n1. CURRENT VERSION VULNERABILITIES: CVE-2020-1111 (High) https://x.y/z.\n2.")}

RECURSIVE TextsUpTo(_)
TextsUpTo(n) ==
    IF n = 0 THEN {<<>>}
    ELSE TextsUpTo(n - 1)
         \cup {IF t = <<>> THEN w ELSE t \o <<" ">> \o w :
                  t \in TextsUpTo(n - 1), w \in Phrases}

OracleOutcomes ==
    {[kind |-> k, text |-> <<>>] : k \in OutcomeKinds \ {"text"}}
    \cup {[kind |-> "text", text |-> t] : t \in TextsUpTo(MaxPhrases)}

NoVerdict == [safe |-> FALSE, details |-> <<"NONE">>]

NoBody ==
    [fileType |-> "none", total |-> 0, majorCount |-> 0, minorCount |-> 0, patchCount |-> 0,
     riskLevel |-> "none", warning |-> FALSE, majorTable |-> <<>>, minorTable |-> <<>>,
     patchTable |-> <<>>]

\* most dot-separated components of a version classified in SpecType
MaxComponents == 3
\* most approved dependencies of a pull request in SpecBody
MaxBodyDeps == 3

\* the components versions are built from in SpecType
ComponentPool == {<<"0">>, <<"1">>, <<"0", "2">>}

RECURSIVE VersionsUpTo(_)
\* the versions of at most n components
VersionsUpTo(n) ==
    IF n = 1 THEN ComponentPool
    ELSE VersionsUpTo(n - 1)
         \cup {v \o <<".">> \o c : v \in VersionsUpTo(n - 1), c \in ComponentPool}

\* the versions getUpdateType is called on: plain ones, one with a range
\* prefix, one with an empty component and an empty one
TypeVersions ==
    VersionsUpTo(MaxComponents) \cup {Chars("^2.0.1"), Chars("1..2"), <<>>}

\* the approved dependencies a pull request body is generated for: the i-th
\* is named after its position and has the update type getUpdateType gives
\* for its versions (for a latest version that is null it gives 'unknown')
BodyLatest == {Null, Chars("2.0.0"), Chars("1.3.0"), Chars("1.2.4")}

BodyDep(i, latest) ==
    [name |-> <<"p", Chars("0123456789")[i + 1]>>,
     currentVersion |-> Chars("^1.2.3"),
     latestVersion |-> latest,
     type |-> "dependency",
     updateType |-> GetUpdateType(Chars("1.2.3"), latest),
     securityCheck |-> [safe |-> TRUE, details |-> Chars("SAFE")]]

BodyDepLists ==
    UNION {{[i \in 1..n |-> BodyDep(i, f[i])] : f \in [1..n -> BodyLatest]} : n \in 1..MaxBodyDeps}

----------------------------------------------------------------------------
(* cli.js: environment validation, parseRepoUrl and main                   *)

RequiredEnvVars ==
    {"GITHUB_APP_ID", "GITHUB_PRIVATE_KEY", "GITHUB_INSTALLATION_ID", "ANTHROPIC_API_KEY"}

\* a variable is unset, set to the empty string, or set to a value
EnvValues == {Undefined, <<>>, <<"v">>}

\* requiredEnvVars.filter(envVar => !process.env[envVar])
MissingVars(env) == {v \in RequiredEnvVars : env[v] = Undefined \/ env[v] = <<>>}

RECURSIVE SlashRun(_, _)
\* length of the run of "/" of s from position i
SlashRun(s, i) == IF i > Len(s) \/ s[i] # "/" THEN 0 ELSE 1 + SlashRun(s, i + 1)

RECURSIVE RunUntil(_, _, _)
\* length of the run of s from position i that has no character of stops
RunUntil(s, i, stops) ==
    IF i > Len(s) \/ s[i] \in stops THEN 0 ELSE 1 + RunUntil(s, i + 1, stops)

\* new URL(href).pathname for the strings parseRepoUrl builds: a string that
\* does not begin with http:// or https:// has no scheme and is rejected
\* with a TypeError, as is one with an empty host; the slashes after the
\* scheme are skipped, the host runs to the first "/", "?" or "#" and the
\* pathname from there to the first "?" or "#", "/" when it is empty
ParseUrl(href) ==
    LET scheme == IF StartsWith(href, Chars("https://")) THEN 8
                  ELSE IF StartsWith(href, Chars("http://")) THEN 7
                  ELSE 0
        hostAt == scheme + 1 + SlashRun(href, scheme + 1)
        hostLen == RunUntil(href, hostAt, {"/", "?", "#"})
        pathLen == RunUntil(href, hostAt + hostLen, {"?", "#"})
    IN  IF scheme = 0 \/ hostLen = 0
        THEN [threw |-> TRUE, pathname |-> <<>>]
        ELSE [threw |-> FALSE,
              pathname |-> IF pathLen = 0 THEN <<"/">>
                           ELSE SubSeq(href, hostAt + hostLen, hostAt + hostLen + pathLen - 1)]

\* part => part.trim() !== ''
NonBlankPart(part) == Trim(part) # <<>>

\* parseRepoUrl: exited stands for the process.exit(1) of its catch block
ParseRepoUrl(url) ==
    LET viaUrl == Includes(url, Chars("github.com"))
        urlObj == ParseUrl(IF StartsWith(url, Chars("http")) THEN url
                           ELSE Chars("https://") \o url)
        repoPath == IF ~viaUrl THEN url
                    ELSE IF StartsWith(urlObj.pathname, <<"/">>) THEN Tail(urlObj.pathname)
                    ELSE urlObj.pathname
        parts == SelectSeq(Split(repoPath, "/"), NonBlankPart)
    IN  IF viaUrl /\ urlObj.threw
        THEN [exited |-> TRUE, owner |-> <<>>, repo |-> <<>>]
        ELSE IF Len(parts) < 2
        THEN [exited |-> TRUE, owner |-> <<>>, repo |-> <<>>]
        ELSE [exited |-> FALSE, owner |-> parts[1], repo |-> parts[2]]

\* owners and repository names the locators are built from; a repository
\* can be named after a site, as the pages repositories <user>.github.com
CliOwners == {Chars("o")}
CliRepos == {Chars("r"), Chars("o.github.com")}

\* the three documented forms of a locator of owner/repo
LocatorForms(owner, repo) ==
    {owner \o <<"/">> \o repo,
     Chars("github.com/") \o owner \o <<"/">> \o repo,
     Chars("https://github.com/") \o owner \o <<"/">> \o repo}

\* the values of --repo
CliLocators ==
    UNION {LocatorForms(o, r) : o \in CliOwners, r \in CliRepos}
    \cup {Chars("http://github.com/o/r"), Chars("https://github.com/o/r/"),
          Chars("o/r/x"), Chars("o//r"), <<>>, Chars("o"), Chars("o/"), Chars("o/ "),
          Chars("github.com"), Chars("github.com/o"), Chars("https://github.com"),
          Chars("https://github.com/o"), Chars("httpgithub.com/o/r"),
          Chars("invalid-url-format")}

NoTarget == [owner |-> <<>>, repo |-> <<>>]

NoBot == [targetRepo |-> NoTarget, dryRun |-> FALSE, credentials |-> <<>>]

CliIdle ==
    /\ cOptions = [repo |-> <<>>, dryRun |-> FALSE]
    /\ cEnv = [v \in RequiredEnvVars |-> Undefined]
    /\ cPc = "idle"
    /\ cExit = <<>>
    /\ cTarget = NoTarget
    /\ cBot = NoBot
    /\ cRan = FALSE

\* the validation of the environment at the top level of the script
ValidateEnv ==
    /\ cPc = "start"
    /\ IF MissingVars(cEnv) # {}
       THEN cPc' = "exited" /\ cExit' = <<1>>
       ELSE cPc' = "main" /\ cExit' = cExit
    /\ UNCHANGED <<cOptions, cEnv, cTarget, cBot, cRan>>

\* main: const { owner, repo } = parseRepoUrl(options.repo)
ParseRepo ==
    /\ cPc = "main"
    /\ LET r == ParseRepoUrl(cOptions.repo)
       IN  IF r.exited
           THEN cPc' = "exited" /\ cExit' = <<1>> /\ cTarget' = cTarget
           ELSE cPc' = "parsed" /\ cExit' = cExit
                /\ cTarget' = [owner |-> r.owner, repo |-> r.repo]
    /\ UNCHANGED <<cOptions, cEnv, cBot, cRan>>

\* main: new DependencyBot({...})
ConstructBot ==
    /\ cPc = "parsed"
    /\ cPc' = "constructed"
    /\ cBot' = [targetRepo |-> cTarget, dryRun |-> cOptions.dryRun, credentials |-> cEnv]
    /\ UNCHANGED <<cOptions, cEnv, cExit, cTarget, cRan>>

\* main: await bot.run(); run() catches the failures of its repository, so
\* it resolves and the process ends with code 0
RunBot ==
    /\ cPc = "constructed"
    /\ cPc' = "completed"
    /\ cRan' = TRUE
    /\ cExit' = <<0>>
    /\ UNCHANGED <<cOptions, cEnv, cTarget, cBot>>

----------------------------------------------------------------------------
(* Specification SpecNorm: one version string is normalised for comparison *)
(* by the npm branch or by the python branch of checkDependencies          *)

NormIdle == nInput = <<>> /\ nEco = "idle" /\ nOut = <<>>
VerdictIdle == vOutcome = [kind |-> "apiThrow", text |-> <<>>] /\ vState = "idle" /\ vVerdict = NoVerdict
TypeIdle == tCurrent = <<>> /\ tLatest = <<>> /\ tState = "idle" /\ tOut = "none"
BodyIdle == bFile = "none" /\ bDeps = <<>> /\ bState = "idle" /\ bBody = NoBody

NormalizeNpm ==
    /\ nEco = "none"
    /\ nEco' = "npm"
    /\ nOut' = NpmComparedCurrent(nInput)
    /\ UNCHANGED nInput

NormalizePython ==
    /\ nEco = "none"
    /\ nEco' = "python"
    /\ nOut' = PythonComparedCurrent(nInput)
    /\ UNCHANGED nInput

----------------------------------------------------------------------------
(* Specification SpecVerdict: one call of checkVulnerability               *)

CallCheckVulnerability ==
    /\ vState = "pending"
    /\ LET r == CheckVulnerability(vOutcome)
       IN  /\ vState' = (IF r.raised THEN "raised" ELSE "returned")
           /\ vVerdict' = r.verdict
    /\ UNCHANGED vOutcome

----------------------------------------------------------------------------
(* Specification SpecType: one call of getUpdateType                       *)

CallGetUpdateType ==
    /\ tState = "pending"
    /\ tState' = "classified"
    /\ tOut' = GetUpdateType(tCurrent, tLatest)
    /\ UNCHANGED <<tCurrent, tLatest>>

----------------------------------------------------------------------------
(* Specification SpecBody: one call of generateContextProtocolPR           *)

CallGenerateContextProtocolPR ==
    /\ bState = "pending"
    /\ bState' = "generated"
    /\ bBody' = GenerateContextProtocolPR(bFile, bDeps)
    /\ UNCHANGED <<bFile, bDeps>>

----------------------------------------------------------------------------
(* Specification Spec: DependencyBot.run over the repositories             *)

\* repositories run() processes
MaxRepos == 2

E(n, v) == [name |-> Chars(n), version |-> Chars(v)]

EmptyJson == [dependencies |-> <<>>, devDependencies |-> <<>>]

\* a package.json: the object its text parses to, or a text JSON.parse rejects
NpmFile(parses, deps, dev) ==
    [path |-> "package.json", type |-> "npm",
     content |-> [parses |-> parses,
                  json |-> [dependencies |-> deps, devDependencies |-> dev],
                  text |-> <<>>]]

\* a requirements.txt with the given lines
PythonFile(lines) ==
    [path |-> "requirements.txt", type |-> "python",
     content |-> [parses |-> TRUE, json |-> EmptyJson, text |-> Join(lines, "\n")]]

\* the manifests of the repositories the bot is run on
RepoPool ==
    { <<>>,
      << NpmFile(TRUE, <<E("a", "^1.2.3")>>, <<E("b", "~1.02.3")>>) >>,
      << PythonFile(<<Chars("a==1.0.0"), Chars("# c"), Chars("b>=2.0.0"), <<>>>>) >>,
      << NpmFile(TRUE, <<E("a", "^1.2.3")>>, <<>>),
         PythonFile(<<Chars("# c"), Chars("b>=2.0.0")>>) >>,
      << NpmFile(TRUE, <<E("a", "^1.2"), E("b", "1.0.0")>>, <<>>) >>,
      << PythonFile(<<Chars("a==1.0.0;m"), Chars("a==2.0.0")>>) >>,
      << PythonFile(<<Chars("a=>1.0.0")>>) >>,
      << NpmFile(TRUE, <<E("a", "^1.0.0"), E("g", "git+x")>>,
                       <<E("a", "^1.2.3"), E("f", "file:x")>>),
         PythonFile(<<Chars("a==1..2"), Chars("b==1.2")>>) >>,
      << NpmFile(FALSE, <<>>, <<>>), PythonFile(<<Chars("a==1.0.0")>>) >> }

\* what getLatestNpmVersion / getLatestPypiVersion can return
LatestVersions == {Null, Undefined, Chars("1.2.3"), Chars("2.0.0"), Chars("2.1")}

\* what the oracle call can produce during a run
RunOutcomes ==
    {[kind |-> "apiThrow", text |-> <<>>],
     [kind |-> "text", text |-> Chars("SAFE")],
     [kind |-> "text", text |-> Chars("UNSAFE CVE-2021-1234")]}

NoDep ==
    [name |-> <<>>, currentVersion |-> <<>>, latestVersion |-> <<>>, type |-> "none",
     updateType |-> "none", securityCheck |-> NoVerdict]

NoCall == [name |-> <<>>, current |-> <<>>, latest |-> <<>>, ecosystem |-> "none"]

NoReport == [generated |-> FALSE, written |-> FALSE, deps |-> <<>>]

\* the entries the loop of checkDependencies goes over
Entries(file) ==
    IF file.type = "npm" THEN MergedDependencies(file.content.json)
    ELSE Split(file.content.text, "\n")

\* the security check attached to an outdated dependency: none in dry-run mode
SecurityCheckOf(outcome, dry) ==
    IF dry THEN [raised |-> FALSE, verdict |-> NoVerdict] ELSE CheckVulnerability(outcome)

\* latestVersion && semver.gt(...) of the npm branch without the guard on
\* latestVersion
NpmOutdatedTestNoGuard(latest, cleanVersion) ==
    SemverGt(SanitizeVersion(latest), SanitizeVersion(cleanVersion))

\* the test of the npm branch with a non-strict comparison
NpmOutdatedTestGte(latest, cleanVersion) ==
    IF Falsy(latest) THEN "false"
    ELSE IF SanitizeVersion(latest) = SanitizeVersion(cleanVersion)
              /\ SemverValid(SanitizeVersion(latest))
         THEN "true"
    ELSE SemverGt(SanitizeVersion(latest), SanitizeVersion(cleanVersion))

\* latestVersion && semver.gt(sanitizedLatestVersion, sanitizedCurrentVersion):
\* "true", "false", or "throw" when semver.gt raises
NpmOutdatedTest(latest, cleanVersion) ==
    IF Falsy(latest) THEN "false"
    ELSE SemverGt(SanitizeVersion(latest), SanitizeVersion(cleanVersion))

\* latestVersion && semver.gt(semverCompatibleLatest, semverCompatibleCurrent)
PythonOutdatedTest(latest, version) ==
    IF Falsy(latest) THEN "false"
    ELSE SemverGt(MakeVersionSemverCompatible(latest), MakeVersionSemverCompatible(version))

\* the skip test of the npm loop looking for a local reference only
SkipsDeclaredFileOnly(version) == StartsWith(version, Chars("file:"))

\* version.includes('git') || version.startsWith('file:')
SkipsDeclared(version) ==
    Includes(version, Chars("git")) \/ StartsWith(version, Chars("file:"))

\* one iteration of the npm loop of checkDependencies: semver.gt is not in a
\* try block, so its TypeError leaves checkDependencies
NpmEntry(packageJson, e, latest, outcome, dry) ==
    LET cleanVersion == StripNonNumeric(e.version)
        gt == NpmOutdatedTest(latest, cleanVersion)
        check == SecurityCheckOf(outcome, dry)
    IN  IF SkipsDeclared(e.version)
        THEN [event |-> "skipped", lookedUp |-> FALSE, name |-> e.name,
              declared |-> e.version, dep |-> NoDep, called |-> FALSE, call |-> NoCall]
        ELSE IF gt = "true"
        THEN [event |-> IF check.raised THEN "throw" ELSE "outdated", lookedUp |-> TRUE,
              name |-> e.name, declared |-> e.version,
              dep |-> [name |-> e.name, currentVersion |-> e.version,
                       latestVersion |-> latest,
                       type |-> IF ~Falsy(Lookup(packageJson.dependencies, e.name))
                                THEN "dependency" ELSE "devDependency",
                       updateType |-> GetUpdateType(cleanVersion, latest),
                       securityCheck |-> check.verdict],
              called |-> ~dry,
              call |-> [name |-> e.name, current |-> cleanVersion, latest |-> latest,
                        ecosystem |-> "npm"]]
        ELSE [event |-> IF gt = "throw" THEN "throw"
                        ELSE IF Falsy(latest) THEN "unresolved" ELSE "current",
              lookedUp |-> TRUE, name |-> e.name, declared |-> e.version,
              dep |-> NoDep, called |-> FALSE, call |-> NoCall]

\* one iteration of the python loop of checkDependencies: the catch block of
\* the comparison reads cleanVersion, which is not declared in this branch,
\* so a ReferenceError leaves checkDependencies
PythonLine(line, latest, outcome, dry) ==
    LET m == MatchRequirement(line)
        gt == PythonOutdatedTest(latest, m.version)
        check == SecurityCheckOf(outcome, dry)
    IN  IF BlankOrComment(line) \/ ~m.matched
        THEN [event |-> "notCandidate", lookedUp |-> FALSE, name |-> m.name,
              declared |-> line, dep |-> NoDep, called |-> FALSE, call |-> NoCall]
        ELSE IF gt = "true"
        THEN [event |-> IF check.raised THEN "throw" ELSE "outdated", lookedUp |-> TRUE,
              name |-> m.name, declared |-> m.operator \o m.version,
              dep |-> [name |-> m.name, currentVersion |-> m.operator \o m.version,
                       latestVersion |-> latest, type |-> "dependency",
                       updateType |-> GetUpdateType(m.version, latest),
                       securityCheck |-> check.verdict],
              called |-> ~dry,
              call |-> [name |-> m.name, current |-> m.version, latest |-> latest,
                        ecosystem |-> "pypi"]]
        ELSE [event |-> IF gt = "throw" THEN "throw"
                        ELSE IF Falsy(latest) THEN "unresolved" ELSE "current",
              lookedUp |-> TRUE, name |-> m.name, declared |-> m.operator \o m.version,
              dep |-> NoDep, called |-> FALSE, call |-> NoCall]

\* one iteration of the loop of checkDependencies over the entries of file
EntryResult(file, entry, latest, outcome, dry) ==
    IF file.type = "npm" THEN NpmEntry(file.content.json, entry, latest, outcome, dry)
    ELSE PythonLine(entry, latest, outcome, dry)

IsSafeDep(dep) == dep.securityCheck.safe

\* safeDeps of processRepository with the filter applied in dry-run mode too
SafeDepsAlwaysFiltered(deps, dry) == SelectSeq(deps, IsSafeDep)

\* safeDeps of processRepository
SafeDeps(deps, dry) == IF dry THEN deps ELSE SelectSeq(deps, IsSafeDep)

CurrentFile == packageFiles[fileIdx]

\* an exception of processRepository that is not caught and leaves run()
RepositoryFailsUncaught(stage) ==
    /\ repoError' = stage
    /\ pc' = "raised"
    /\ reposLeft' = reposLeft

\* the catch of processRepository: the repository is over, run() goes on
RepositoryFails(stage) ==
    /\ repoError' = stage
    /\ pc' = "run"
    /\ reposLeft' = reposLeft - 1

\* run(): the next repository of the list; getPackageFiles reads its manifests
StartRepository ==
    /\ pc = "run"
    /\ reposLeft > 0
    /\ packageFiles' \in RepoPool
    /\ pc' = "file"
    /\ fileIdx' = 1
    /\ entryIdx' = 1
    /\ outdatedDeps' = <<>>
    /\ allDependencies' = <<>>
    /\ safeDeps' = <<>>
    /\ oracleCalls' = <<>>
    /\ branchExists' = FALSE
    /\ commits' = <<>>
    /\ pulls' = <<>>
    /\ report' = NoReport
    /\ repoError' = "none"
    /\ log' = <<>>
    /\ UNCHANGED <<dryRun, reposLeft>>

\* checkDependencies starts on the next manifest; JSON.parse of a malformed
\* package.json throws
BeginCheck ==
    /\ pc = "file"
    /\ fileIdx <= Len(packageFiles)
    /\ IF CurrentFile.type = "npm" /\ ~CurrentFile.content.parses
       THEN /\ RepositoryFails("parse")
            /\ UNCHANGED <<entryIdx, outdatedDeps>>
       ELSE /\ pc' = "check"
            /\ entryIdx' = 1
            /\ outdatedDeps' = <<>>
            /\ UNCHANGED <<reposLeft, repoError>>
    /\ safeDeps' = <<>>
    /\ UNCHANGED <<dryRun, packageFiles, fileIdx, allDependencies, oracleCalls,
                   branchExists, commits, pulls, report, log>>

\* one iteration of the loop of checkDependencies
CheckEntry ==
    /\ pc = "check"
    /\ entryIdx <= Len(Entries(CurrentFile))
    /\ \E latest \in LatestVersions, outcome \in RunOutcomes :
          \E r \in {EntryResult(CurrentFile, Entries(CurrentFile)[entryIdx], latest,
                                outcome, dryRun)} :
              /\ log' = Append(log, [file |-> fileIdx, entry |-> entryIdx,
                                     name |-> r.name, declared |-> r.declared,
                                     lookedUp |-> r.lookedUp,
                                     latest |-> IF r.lookedUp THEN latest ELSE Undefined,
                                     event |-> r.event])
              /\ oracleCalls' = IF r.called THEN Append(oracleCalls, r.call) ELSE oracleCalls
              /\ IF r.event = "throw"
                 THEN /\ RepositoryFails("compare")
                      /\ UNCHANGED <<entryIdx, outdatedDeps>>
                 ELSE /\ entryIdx' = entryIdx + 1
                      /\ outdatedDeps' = IF r.event = "outdated"
                                         THEN Append(outdatedDeps, r.dep) ELSE outdatedDeps
                      /\ UNCHANGED <<pc, reposLeft, repoError>>
    /\ UNCHANGED <<dryRun, packageFiles, fileIdx, allDependencies, safeDeps, branchExists,
                   commits, pulls, report>>

\* checkDependencies returns: processRepository filters the outdated
\* dependencies and calls createUpdatePR when some are left
FinishCheck ==
    /\ pc = "check"
    /\ entryIdx > Len(Entries(CurrentFile))
    /\ IF Len(outdatedDeps) > 0
       THEN /\ allDependencies' = allDependencies \o outdatedDeps
            /\ safeDeps' = SafeDeps(outdatedDeps, dryRun)
            /\ IF Len(SafeDeps(outdatedDeps, dryRun)) > 0
               THEN /\ pc' = "branch"
                    /\ UNCHANGED fileIdx
               ELSE /\ pc' = "file"
                    /\ fileIdx' = fileIdx + 1
       ELSE /\ pc' = "file"
            /\ fileIdx' = fileIdx + 1
            /\ UNCHANGED <<allDependencies, safeDeps>>
    /\ UNCHANGED <<dryRun, reposLeft, packageFiles, entryIdx, outdatedDeps, oracleCalls,
                   branchExists, commits, pulls, report, repoError, log>>

\* createUpdatePR: getDefaultBranch and createBranch; the hosting API rejects
\* a branch name that exists, and any of its calls can fail
CreateBranch ==
    /\ pc = "branch"
    /\ \E apiOk \in BOOLEAN :
          IF apiOk /\ ~branchExists
          THEN /\ branchExists' = TRUE
               /\ pc' = "commit"
               /\ UNCHANGED <<reposLeft, repoError>>
          ELSE /\ RepositoryFails("branch")
               /\ UNCHANGED branchExists
    /\ UNCHANGED <<dryRun, packageFiles, fileIdx, entryIdx, outdatedDeps, allDependencies,
                   safeDeps, oracleCalls, commits, pulls, report, log>>

\* the commit step going on to the pull request after a failed commit
CommitFileFailureIgnored ==
    /\ pc = "commit"
    /\ \E apiOk \in BOOLEAN :
          /\ commits' = IF apiOk
                         THEN Append(commits,
                                 [path |-> CurrentFile.path, type |-> CurrentFile.type,
                                  original |-> CurrentFile.content, deps |-> safeDeps,
                                  content |-> UpdateDependenciesInFile(CurrentFile, safeDeps)])
                         ELSE commits
          /\ pc' = "pull"
          /\ UNCHANGED <<reposLeft, repoError>>
    /\ UNCHANGED <<dryRun, packageFiles, fileIdx, entryIdx, outdatedDeps, allDependencies,
                   safeDeps, oracleCalls, branchExists, pulls, report, log>>

\* createUpdatePR: updateDependenciesInFile and commitFile
CommitFile ==
    /\ pc = "commit"
    /\ \E apiOk \in BOOLEAN :
          IF apiOk
          THEN /\ commits' = Append(commits,
                      [path |-> CurrentFile.path, type |-> CurrentFile.type,
                       original |-> CurrentFile.content, deps |-> safeDeps,
                       content |-> UpdateDependenciesInFile(CurrentFile, safeDeps)])
               /\ pc' = "pull"
               /\ UNCHANGED <<reposLeft, repoError>>
          ELSE /\ RepositoryFails("commit")
               /\ UNCHANGED commits
    /\ UNCHANGED <<dryRun, packageFiles, fileIdx, entryIdx, outdatedDeps, allDependencies,
                   safeDeps, oracleCalls, branchExists, pulls, report, log>>

\* the pull-request step with a failure of pulls.create swallowed
OpenPullFailureSwallowed ==
    /\ pc = "pull"
    /\ \E apiOk \in BOOLEAN :
          /\ pulls' = IF apiOk
                       THEN Append(pulls, [path |-> CurrentFile.path, deps |-> safeDeps])
                       ELSE pulls
          /\ pc' = "file"
          /\ fileIdx' = fileIdx + 1
          /\ UNCHANGED <<reposLeft, repoError>>
    /\ UNCHANGED <<dryRun, packageFiles, entryIdx, outdatedDeps, allDependencies, safeDeps,
                   oracleCalls, branchExists, commits, report, log>>

\* createUpdatePR: generateContextProtocolPR and pulls.create; then the loop
\* of processRepository goes to the next manifest
OpenPull ==
    /\ pc = "pull"
    /\ \E apiOk \in BOOLEAN :
          IF apiOk
          THEN /\ pulls' = Append(pulls, [path |-> CurrentFile.path, deps |-> safeDeps])
               /\ pc' = "file"
               /\ fileIdx' = fileIdx + 1
               /\ UNCHANGED <<reposLeft, repoError>>
          ELSE /\ RepositoryFails("pull")
               /\ UNCHANGED <<pulls, fileIdx>>
    /\ UNCHANGED <<dryRun, packageFiles, entryIdx, outdatedDeps, allDependencies, safeDeps,
                   oracleCalls, branchExists, commits, report, log>>

\* the end of processRepository: generateReport when there is something to
\* report and the run is not a dry run; generateReport catches its own errors
FinishRepository ==
    /\ pc = "file"
    /\ fileIdx > Len(packageFiles)
    /\ IF Len(allDependencies) > 0 /\ ~dryRun
       THEN \E written \in BOOLEAN :
               report' = [generated |-> TRUE, written |-> written, deps |-> allDependencies]
       ELSE UNCHANGED report
    /\ pc' = "run"
    /\ reposLeft' = reposLeft - 1
    /\ UNCHANGED <<dryRun, packageFiles, fileIdx, entryIdx, outdatedDeps, allDependencies,
                   safeDeps, oracleCalls, branchExists, commits, pulls, repoError, log>>

\* run() returns after the last repository
RunCompletes ==
    /\ pc = "run"
    /\ reposLeft = 0
    /\ pc' = "done"
    /\ UNCHANGED <<dryRun, reposLeft, repoVars>>

BotIdle ==
    /\ dryRun = FALSE
    /\ pc = "idle"
    /\ reposLeft = 0
    /\ packageFiles = <<>>
    /\ fileIdx = 1
    /\ entryIdx = 1
    /\ outdatedDeps = <<>>
    /\ allDependencies = <<>>
    /\ safeDeps = <<>>
    /\ oracleCalls = <<>>
    /\ branchExists = FALSE
    /\ commits = <<>>
    /\ pulls = <<>>
    /\ report = NoReport
    /\ repoError = "none"
    /\ log = <<>>

----------------------------------------------------------------------------

vars == <<normVars, verdictVars, typeVars, bodyVars, botVars, cliVars>>

InitNorm ==
    /\ nInput \in VersionInputs
    /\ nEco = "none"
    /\ nOut = <<>>
    /\ VerdictIdle
    /\ TypeIdle
    /\ BodyIdle
    /\ BotIdle
    /\ CliIdle

NextNorm ==
    \/ NormalizeNpm /\ UNCHANGED <<verdictVars, typeVars, bodyVars, botVars, cliVars>>
    \/ NormalizePython /\ UNCHANGED <<verdictVars, typeVars, bodyVars, botVars, cliVars>>

SpecNorm == InitNorm /\ [][NextNorm]_vars

InitVerdict ==
    /\ vOutcome \in OracleOutcomes
    /\ vState = "pending"
    /\ vVerdict = NoVerdict
    /\ NormIdle
    /\ TypeIdle
    /\ BodyIdle
    /\ BotIdle
    /\ CliIdle

NextVerdict == CallCheckVulnerability /\ UNCHANGED <<normVars, typeVars, bodyVars, botVars, cliVars>>

SpecVerdict == InitVerdict /\ [][NextVerdict]_vars

InitType ==
    /\ tCurrent \in TypeVersions
    /\ tLatest \in TypeVersions
    /\ tState = "pending"
    /\ tOut = "none"
    /\ NormIdle
    /\ VerdictIdle
    /\ BodyIdle
    /\ BotIdle
    /\ CliIdle

NextType == CallGetUpdateType /\ UNCHANGED <<normVars, verdictVars, bodyVars, botVars, cliVars>>

SpecType == InitType /\ [][NextType]_vars

InitBody ==
    /\ bFile \in {"npm", "python"}
    /\ bDeps \in BodyDepLists
    /\ bState = "pending"
    /\ bBody = NoBody
    /\ NormIdle
    /\ VerdictIdle
    /\ TypeIdle
    /\ BotIdle
    /\ CliIdle

NextBody ==
    CallGenerateContextProtocolPR /\ UNCHANGED <<normVars, verdictVars, typeVars, botVars, cliVars>>

SpecBody == InitBody /\ [][NextBody]_vars

Init ==
    /\ dryRun \in BOOLEAN
    /\ pc = "run"
    /\ reposLeft = MaxRepos
    /\ packageFiles = <<>>
    /\ fileIdx = 1
    /\ entryIdx = 1
    /\ outdatedDeps = <<>>
    /\ allDependencies = <<>>
    /\ safeDeps = <<>>
    /\ oracleCalls = <<>>
    /\ branchExists = FALSE
    /\ commits = <<>>
    /\ pulls = <<>>
    /\ report = NoReport
    /\ repoError = "none"
    /\ log = <<>>
    /\ NormIdle
    /\ VerdictIdle
    /\ TypeIdle
    /\ BodyIdle
    /\ CliIdle

Next ==
    \/ StartRepository /\ UNCHANGED <<normVars, verdictVars, typeVars, bodyVars, cliVars>>
    \/ BeginCheck /\ UNCHANGED <<normVars, verdictVars, typeVars, bodyVars, cliVars>>
    \/ CheckEntry /\ UNCHANGED <<normVars, verdictVars, typeVars, bodyVars, cliVars>>
    \/ FinishCheck /\ UNCHANGED <<normVars, verdictVars, typeVars, bodyVars, cliVars>>
    \/ CreateBranch /\ UNCHANGED <<normVars, verdictVars, typeVars, bodyVars, cliVars>>
    \/ CommitFile /\ UNCHANGED <<normVars, verdictVars, typeVars, bodyVars, cliVars>>
    \/ OpenPull /\ UNCHANGED <<normVars, verdictVars, typeVars, bodyVars, cliVars>>
    \/ FinishRepository /\ UNCHANGED <<normVars, verdictVars, typeVars, bodyVars, cliVars>>
    \/ RunCompletes /\ UNCHANGED <<normVars, verdictVars, typeVars, bodyVars, cliVars>>

Spec == Init /\ [][Next]_vars

\* every step of run() is awaited and every API call returns or rejects, so
\* a run that has not returned keeps taking steps.  Next is enabled exactly
\* while pc # "done", which makes this condition WF_vars(Next)
SpecFair == Spec /\ ([]<>(pc = "done") \/ []<><<Next>>_vars)

----------------------------------------------------------------------------
(* Specification SpecCli: one run of the command-line script               *)

InitCli ==
    /\ cOptions \in [repo : CliLocators, dryRun : BOOLEAN]
    /\ cEnv \in [RequiredEnvVars -> EnvValues]
    /\ cPc = "start"
    /\ cExit = <<>>
    /\ cTarget = NoTarget
    /\ cBot = NoBot
    /\ cRan = FALSE
    /\ NormIdle
    /\ VerdictIdle
    /\ TypeIdle
    /\ BodyIdle
    /\ BotIdle

NextCli ==
    \/ ValidateEnv /\ UNCHANGED <<normVars, verdictVars, typeVars, bodyVars, botVars>>
    \/ ParseRepo /\ UNCHANGED <<normVars, verdictVars, typeVars, bodyVars, botVars>>
    \/ ConstructBot /\ UNCHANGED <<normVars, verdictVars, typeVars, bodyVars, botVars>>
    \/ RunBot /\ UNCHANGED <<normVars, verdictVars, typeVars, bodyVars, botVars>>

SpecCli == InitCli /\ [][NextCli]_vars

----------------------------------------------------------------------------
(* Claims about SecurityChecker (SpecVerdict)                              *)

\* an explicit safety affirmation: the text says "safe" and does not say "unsafe"
ExplicitAffirmation(text) ==
    Includes(ToLowerCase(text), Chars("safe")) /\ ~Includes(ToLowerCase(text), Chars("unsafe"))

\* the text carries an advisory identifier CVE-dddd-dddd (case-insensitive)
HasAdvisoryId(text) ==
    \E i \in 1..(Len(text) - 12) :
        /\ ToLowerCase(SubSeq(text, i, i + 3)) = Chars("cve-")
        /\ AllDigits(SubSeq(text, i + 4, i + 7))
        /\ text[i + 8] = "-"
        /\ AllDigits(SubSeq(text, i + 9, i + 12))

\* C3: checkVulnerability never raises to its caller, always returns a
\* verdict object, and when the oracle call failed (the API call threw, the
\* response had no content, or its content had no text to parse) the
\* verdict returned has safe = FALSE.
C3_FailClosedCall ==
    /\ vState # "raised"
    /\ vState = "returned" =>
          /\ vVerdict.safe \in BOOLEAN
          /\ vVerdict # NoVerdict
          /\ (vOutcome.kind # "text" => vVerdict.safe = FALSE)

C3_Witness == vState = "returned" /\ vOutcome.kind = "noText" /\ vVerdict.safe = FALSE

\* C4: a verdict with safe = TRUE is returned only for a text that carries
\* an explicit safety affirmation; an empty text, a text with no SAFE/UNSAFE
\* statement, and a text stating UNSAFE yield safe = FALSE.
C4_SafeOnlyWhenAffirmed ==
    (vState = "returned" /\ vOutcome.kind = "text" /\ vVerdict.safe)
        => ExplicitAffirmation(vOutcome.text)

\* C5: a response text with an advisory identifier and no explicit safety
\* affirmation yields safe = FALSE.
C5_AdvisoryWithoutAffirmation ==
    (vState = "returned" /\ vOutcome.kind = "text"
        /\ HasAdvisoryId(vOutcome.text) /\ ~ExplicitAffirmation(vOutcome.text))
        => vVerdict.safe = FALSE

C5_Witness ==
    /\ vState = "returned"
    /\ vOutcome.kind = "text"
    /\ HasAdvisoryId(vOutcome.text)
    /\ Includes(ToLowerCase(vOutcome.text), Chars("unsafe"))
    /\ vVerdict.safe = FALSE

\* the vulnerability records of a parsed verdict
VulnerabilityRecords(verdict) ==
    {verdict.currentVersionVulnerabilities[k] :
        k \in 1..Len(verdict.currentVersionVulnerabilities)}
    \cup {verdict.newVersionVulnerabilities[k] :
              k \in 1..Len(verdict.newVersionVulnerabilities)}

\* C22: every vulnerability record produced by extractCVEsFromText has a
\* severity that is one of critical, high, medium, low or unknown.
C22_SeverityDomain ==
    (vState = "returned" /\ vOutcome.kind = "text") =>
        \A rec \in VulnerabilityRecords(vVerdict) :
            rec.severity \in {"critical", "high", "medium", "low", "unknown"}

\* C27: whenever parseSecurityResponse returns a verdict with safe = TRUE,
\* the verdict's list of vulnerabilities attributed to the new version is
\* empty.
C27_SafeHasNoNewVersionCves ==
    (vState = "returned" /\ vOutcome.kind = "text" /\ vVerdict.safe)
        => vVerdict.newVersionVulnerabilities = <<>>

----------------------------------------------------------------------------
(* Claims about version normalisation (SpecNorm)                           *)

ThreeNumericComponents(v) ==
    LET parts == Split(v, ".")
    IN  Len(parts) = 3 /\ \A i \in 1..3 : Len(parts[i]) > 0 /\ AllDigits(parts[i])

\* C9: for npm and python alike the string compared has exactly three
\* numeric components, a shorter version being right-padded with "0", and a
\* version that sanitises to the empty string is compared as "0.0.0".
C9_ThreeComponents ==
    nEco \in {"npm", "python"} =>
        LET clean == StripNonNumeric(nInput)
            parts == Split(clean, ".")
        IN  /\ clean = <<>> => nOut = Chars("0.0.0")
            /\ (clean # <<>> /\ Len(parts) <= 3 /\ \A i \in 1..Len(parts) : Len(parts[i]) > 0)
                  => /\ ThreeNumericComponents(nOut)
                     /\ nOut = Join(PadToThree([i \in 1..Len(parts) |->
                                                   StripLeadingZeros(parts[i])]), ".")

----------------------------------------------------------------------------
(* Claims about the run (Spec)                                             *)

SeqToSet(q) == {q[i] : i \in 1..Len(q)}

\* an approved update of deps that was computed for this very entry: same
\* name, same declared expression, verdict safe
ApprovedFor(deps, name, declared) ==
    \E d \in SeqToSet(deps) :
        d.name = name /\ d.currentVersion = declared /\ d.securityCheck.safe

\* every entry of an npm mapping that the commit changed was approved
NpmChangesApproved(before, after, deps) ==
    \A i \in 1..Len(before) :
        after[i] # before[i] => ApprovedFor(deps, before[i].name, before[i].version)

\* every line of a python manifest that the commit changed was approved
PythonChangesApproved(before, after, deps) ==
    LET old == Split(before, "\n")
        new == Split(after, "\n")
    IN  \A i \in 1..Len(old) :
            new[i] # old[i] =>
                LET m == MatchRequirement(old[i])
                IN  ApprovedFor(deps, m.name, m.operator \o m.version)

\* C1: in non-dry-run mode every dependency listed in an opened pull request
\* has a verdict with safe = TRUE, and every manifest entry changed by a
\* commit is the entry of a dependency whose own verdict is safe = TRUE: an
\* entry whose evaluation was unsafe, or that was not evaluated as outdated,
\* is never rewritten.
C1_OnlySafeWritten ==
    ~dryRun =>
        /\ \A k \in 1..Len(pulls) : \A d \in SeqToSet(pulls[k].deps) : d.securityCheck.safe
        /\ \A k \in 1..Len(commits) :
              IF commits[k].type = "npm"
              THEN /\ NpmChangesApproved(commits[k].original.json.dependencies,
                                         commits[k].content.json.dependencies,
                                         commits[k].deps)
                   /\ NpmChangesApproved(commits[k].original.json.devDependencies,
                                         commits[k].content.json.devDependencies,
                                         commits[k].deps)
              ELSE PythonChangesApproved(commits[k].original.text, commits[k].content.text,
                                         commits[k].deps)

\* C2: in dry-run mode no branch is created, no file is committed and no
\* pull request is opened.
C2_DryRunWritesNothing ==
    dryRun => (~branchExists /\ commits = <<>> /\ pulls = <<>>)

\* the comparison of a logged step raises: a version was resolved and one of
\* the two strings handed to semver.gt is no valid version
ComparisonRaises(l) ==
    /\ l.lookedUp
    /\ ~Falsy(l.latest)
    /\ IF packageFiles[l.file].type = "npm"
       THEN ~SemverValid(SanitizeVersion(l.latest))
               \/ ~SemverValid(SanitizeVersion(StripNonNumeric(l.declared)))
       ELSE ~SemverValid(MakeVersionSemverCompatible(l.latest))
               \/ ~SemverValid(MakeVersionSemverCompatible(l.declared))

\* C6: a dependency whose version comparison raises is skipped and the scan
\* goes on: the failure produces no outdated entry and does not end the
\* scan of the manifest or of the repository, for npm and python alike.
C6_CompareFailureSkipped ==
    \A i \in 1..Len(log) :
        ComparisonRaises(log[i]) =>
            /\ log[i].event # "outdated"
            /\ ~(i = Len(log) /\ repoError = "compare")

\* C7: a step of checkDependencies whose latest-version lookup came back
\* null or undefined adds no outdated entry, makes no oracle call, and
\* leaves the loop at the next entry of the same manifest with nothing else
\* changed.
C7_UnresolvedSkipped ==
    [][(Len(log') = Len(log) + 1 /\ log'[Len(log')].lookedUp /\ Falsy(log'[Len(log')].latest))
          => /\ outdatedDeps' = outdatedDeps
             /\ oracleCalls' = oracleCalls
             /\ pc' = "check"
             /\ entryIdx' = entryIdx + 1
             /\ UNCHANGED <<fileIdx, allDependencies, safeDeps, repoError, reposLeft,
                            commits, pulls, report, branchExists>>]_vars

\* an unresolved dependency is followed, in the same manifest, by one that
\* was resolved, found outdated and checked
C7_Witness ==
    \E i \in 1..Len(log) : \E j \in (i + 1)..Len(log) :
        /\ log[i].lookedUp /\ Falsy(log[i].latest)
        /\ log[j].file = log[i].file
        /\ log[j].event = "outdated"
        /\ packageFiles[log[i].file].type = "python"
        /\ Len(outdatedDeps) = 1
        /\ Len(oracleCalls) > 0

\* C8: in dry-run mode checkVulnerability is never called, no outdated
\* dependency carries a verdict, and the candidates processRepository keeps
\* for a manifest are all the outdated dependencies checkDependencies found.
C8_DryRunNoOracleNoFilter ==
    dryRun =>
        /\ oracleCalls = <<>>
        /\ \A d \in SeqToSet(outdatedDeps) : d.securityCheck = NoVerdict
        /\ pc \in {"file", "branch", "commit", "pull"} => safeDeps = outdatedDeps
        /\ \A k \in 1..Len(pulls) : Len(pulls[k].deps) > 0

C8_Witness ==
    /\ dryRun
    /\ pc = "branch"
    /\ Len(outdatedDeps) = 2
    /\ safeDeps = outdatedDeps

\* major.minor.patch of a version as numbers: non-numeric characters
\* dropped, missing components 0
NormalizedTriple(v) ==
    LET parts == Split(StripNonNumeric(v), ".")
    IN  [i \in 1..3 |-> IF i <= Len(parts) THEN StrToNat(parts[i]) ELSE 0]

TripleGreater(a, b) ==
    \/ a[1] > b[1]
    \/ a[1] = b[1] /\ a[2] > b[2]
    \/ a[1] = b[1] /\ a[2] = b[2] /\ a[3] > b[3]

\* C10: every outdated entry has a resolved latest version whose normalized
\* triple is strictly greater than that of the current version, and a step
\* whose two versions are equal after normalization emits no entry.
C10_OutdatedOnlyIfGreater ==
    /\ \A d \in SeqToSet(outdatedDeps) \cup SeqToSet(allDependencies) :
          /\ ~Falsy(d.latestVersion)
          /\ TripleGreater(NormalizedTriple(d.latestVersion),
                           NormalizedTriple(d.currentVersion))
    /\ \A i \in 1..Len(log) :
          (log[i].lookedUp /\ ~Falsy(log[i].latest)
              /\ NormalizedTriple(log[i].latest) = NormalizedTriple(log[i].declared))
             => log[i].event # "outdated"

\* "~1.02.3" was compared with the latest version "1.2.3" and gave no entry
C10_Witness ==
    \E i \in 1..Len(log) :
        /\ log[i].declared = Chars("~1.02.3")
        /\ log[i].latest = Chars("1.2.3")
        /\ log[i].event = "current"
        /\ Len(outdatedDeps) = 1

----------------------------------------------------------------------------
(* Claims about getUpdateType (SpecType)                                   *)

\* the tier the components of the two versions call for
ExpectedUpdateType(current, latest) ==
    LET c == NormalizedTriple(current)
        l == NormalizedTriple(latest)
    IN  IF l[1] > c[1] THEN "major"
        ELSE IF l[2] > c[2] THEN "minor"
        ELSE "patch"

\* C11: getUpdateType returns 'major' when the major component of latest
\* exceeds that of current, whatever the minor and patch components are,
\* otherwise 'minor' when the minor component of latest exceeds that of
\* current, otherwise 'patch'; for valid three-component versions and for
\* the versions of the manual fallback (fewer components, leading zeros).
C11_UpdateTypeByComponents ==
    tState = "classified" => tOut = ExpectedUpdateType(tCurrent, tLatest)

\* a fallback pair: leading zeros, fewer components, a greater major and a
\* smaller minor component
C11_Witness ==
    /\ tState = "classified"
    /\ tCurrent = Chars("1.02")
    /\ tLatest = Chars("02")
    /\ tOut = "major"

----------------------------------------------------------------------------
(* Claims about the manifest rewrite (Spec)                                *)

\* the approved update of deps recorded for name in the category
UpdatesOf(deps, name, type) ==
    {d \in SeqToSet(deps) : d.name = name /\ d.type = type}

\* a category of an npm commit: the entry of each approved update recorded
\* for it is prefix + latest, the others are as they were
NpmCategoryRewritten(before, after, deps, type) ==
    /\ Len(after) = Len(before)
    /\ \A i \in 1..Len(before) :
          /\ after[i].name = before[i].name
          /\ \A d \in UpdatesOf(deps, before[i].name, type) :
                after[i].version = VersionPrefix(d.currentVersion) \o d.latestVersion
          /\ UpdatesOf(deps, before[i].name, type) = {} => after[i] = before[i]

\* C12: in the npm rewrite the entry of each approved update, in the
\* category recorded for it, becomes the leading non-digit prefix of the
\* declared expression followed by the latest version, and every entry that
\* is not in the approved set, in either category, keeps its value.
C12_NpmRewrite ==
    \A k \in 1..Len(commits) :
        commits[k].type = "npm" =>
            /\ NpmCategoryRewritten(commits[k].original.json.dependencies,
                                     commits[k].content.json.dependencies,
                                     commits[k].deps, "dependency")
            /\ NpmCategoryRewritten(commits[k].original.json.devDependencies,
                                     commits[k].content.json.devDependencies,
                                     commits[k].deps, "devDependency")

\* one approved update in each category: ^1.2.3 became ^2.0.0 and ~1.02.3
\* became ~2.0.0
C12_Witness ==
    \E k \in 1..Len(commits) :
        /\ commits[k].type = "npm"
        /\ Len(commits[k].deps) = 2
        /\ commits[k].content.json.dependencies = <<E("a", "^2.0.0")>>
        /\ commits[k].content.json.devDependencies = <<E("b", "~2.0.0")>>

\* the text of a matched line after its version segment
RestOfLine(line) ==
    LET m == MatchRequirement(line)
    IN  SubSeq(line, Len(m.name) + Len(m.operator) + Len(m.version) + 1, Len(line))

\* C13: in the python rewrite a line matched for an approved dependency
\* keeps its name and its operator, has its version segment replaced by
\* the latest version, and keeps the text that follows the version.
C13_PythonRestPreserved ==
    \A k \in 1..Len(commits) :
        commits[k].type = "python" =>
            LET old == Split(commits[k].original.text, "\n")
                new == Split(commits[k].content.text, "\n")
            IN  \A i \in 1..Len(old) :
                    LET m == MatchRequirement(old[i])
                    IN  (~BlankOrComment(old[i]) /\ m.matched
                            /\ FindDep(commits[k].deps, m.name) # 0)
                        => new[i] = m.name \o m.operator
                                      \o commits[k].deps[FindDep(commits[k].deps, m.name)].latestVersion
                                      \o RestOfLine(old[i])

\* a line of a python manifest that the rewrite has to leave alone
Untouchable(line, deps) ==
    \/ BlankOrComment(line)
    \/ ~MatchRequirement(line).matched
    \/ \A d \in SeqToSet(deps) : d.name # MatchRequirement(line).name

\* C14: the python rewrite keeps the number and the order of the lines, and
\* every line that is blank, a comment, not of the dependency grammar, or
\* of a dependency that is not approved is emitted unchanged.
C14_PythonOtherLinesKept ==
    \A k \in 1..Len(commits) :
        commits[k].type = "python" =>
            LET old == Split(commits[k].original.text, "\n")
                new == Split(commits[k].content.text, "\n")
            IN  /\ Len(new) = Len(old)
                /\ \A i \in 1..Len(old) :
                      Untouchable(old[i], commits[k].deps) => new[i] = old[i]

\* a==1.0.0 approved and rewritten; the comment, b>=2.0.0 and the empty
\* last line kept
C14_Witness ==
    \E k \in 1..Len(commits) :
        /\ commits[k].type = "python"
        /\ commits[k].original.text = Chars("a==1.0.0\n# c\nb>=2.0.0\n")
        /\ commits[k].content.text = Chars("a==2.0.0\n# c\nb>=2.0.0\n")

\* C15: updateDependenciesInFile is idempotent: applied to its own output
\* with the same approved set it gives that output again, for npm and for
\* python manifests.
C15_RewriteIdempotent ==
    \A k \in 1..Len(commits) :
        UpdateDependenciesInFile([path |-> commits[k].path, type |-> commits[k].type,
                                  content |-> commits[k].content],
                                 commits[k].deps) = commits[k].content

\* a python manifest whose rewrite changed it
C15_Witness ==
    \E k \in 1..Len(commits) :
        /\ commits[k].type = "python"
        /\ commits[k].content # commits[k].original
        /\ Len(commits[k].deps) = 2

----------------------------------------------------------------------------
(* Claims about the pull-request body (SpecBody)                           *)

\* the number of tier tables of the body that have a row for dep
TablesListing(body, dep) ==
    (IF dep \in SeqToSet(body.majorTable) THEN 1 ELSE 0)
    + (IF dep \in SeqToSet(body.minorTable) THEN 1 ELSE 0)
    + (IF dep \in SeqToSet(body.patchTable) THEN 1 ELSE 0)

C17_RiskLevel ==
    bState = "generated" =>
        /\ bBody.riskLevel =
              (IF \E i \in 1..Len(bDeps) : bDeps[i].updateType = "major" THEN "High"
               ELSE IF \E i \in 1..Len(bDeps) : bDeps[i].updateType = "minor" THEN "Medium"
               ELSE "Low")
        /\ bBody.warning <=> bBody.riskLevel = "High"

\* a minor update listed before a major one: High, with the warning
C17_Witness ==
    /\ bState = "generated"
    /\ Len(bDeps) = 3
    /\ bDeps[1].updateType = "minor"
    /\ bDeps[2].updateType = "patch"
    /\ bDeps[3].updateType = "major"
    /\ bBody.riskLevel = "High"
    /\ bBody.warning

----------------------------------------------------------------------------
(* Claims about the run, continued (Spec, SpecFair)                        *)

\* a declared expression that is a source-control locator or a local
\* filesystem reference
GitOrFileDeclared(version) ==
    StartsWith(version, Chars("git+")) \/ StartsWith(version, Chars("file:"))

\* the git and file entries of the npm manifest f of the repository
GitOrFileEntries(f) ==
    {e \in SeqToSet(packageFiles[f].content.json.dependencies)
            \cup SeqToSet(packageFiles[f].content.json.devDependencies) :
        GitOrFileDeclared(e.version)}

WriteBackStages == {"branch", "commit", "pull"}

\* C19: a failure of the branch creation, of the commit or of the
\* pull-request creation is caught within processRepository: the failing
\* step ends the repository and hands control back to the loop of run(),
\* and run() then completes.
C19_WriteBackFailureContained ==
    /\ [][(repoError' \in WriteBackStages /\ repoError' # repoError)
             => (pc' = "run" /\ reposLeft' = reposLeft - 1)]_vars
    /\ (repoError \in WriteBackStages) ~> (pc = "done")

\* the pull-request creation failed after the branch and the commit were
\* made, and run() has returned
C19_Witness ==
    /\ pc = "done"
    /\ repoError = "pull"
    /\ branchExists
    /\ Len(commits) = 1
    /\ pulls = <<>>

\* C20: in non-dry-run mode, once the processing of a repository has
\* ended, generateReport has been invoked with all the outdated
\* dependencies found in its manifests.
C20_AllOutdatedReported ==
    (~dryRun /\ pc \in {"run", "done"}
        /\ (allDependencies # <<>> \/ outdatedDeps # <<>>))
        => /\ report.generated
           /\ (SeqToSet(allDependencies) \cup SeqToSet(outdatedDeps)) \subseteq SeqToSet(report.deps)

----------------------------------------------------------------------------
(* Claims about the processing of a repository (Spec)                      *)

\* the processing of a repository has ended
RepositoryEnded == pc \in {"run", "done"} /\ reposLeft < MaxRepos

\* manifest f of the repository was scanned: the loop of checkDependencies
\* has logged a step for it
Scanned(f) == \E i \in 1..Len(log) : log[i].file = f

\* C21: when package.json does not parse, only that manifest is skipped:
\* nothing is committed or proposed for it, the other manifests of the
\* repository are still checked, and the run goes on.
C21_ParseFailureSkipsOnlyManifest ==
    RepositoryEnded =>
        \A f \in 1..Len(packageFiles) :
            (packageFiles[f].type = "npm" /\ ~packageFiles[f].content.parses) =>
                /\ ~Scanned(f)
                /\ \A k \in 1..Len(commits) : commits[k].path # packageFiles[f].path
                /\ \A k \in 1..Len(pulls) : pulls[k].path # packageFiles[f].path
                /\ \A g \in 1..Len(packageFiles) :
                      (g # f /\ Entries(packageFiles[g]) # <<>>) => Scanned(g)

\* the operator of a line of a python manifest: the run of operator
\* characters that follows the name
OperatorOf(line) ==
    SubSeq(line, NameRun(line, 1) + 1, NameRun(line, 1) + OperatorRun(line, NameRun(line, 1) + 1))

StandardOperators ==
    {Chars("=="), Chars(">="), Chars("<="), Chars("~="), Chars("!="), Chars(">"), Chars("<")}

\* C23: a line of a python manifest whose operator is not one of ==, >=, <=,
\* ~=, !=, > and < is no candidate: it is not looked up, never outdated and
\* never rewritten.
C23_StandardOperatorsOnly ==
    /\ \A i \in 1..Len(log) :
          (packageFiles[log[i].file].type = "python"
              /\ OperatorOf(Entries(packageFiles[log[i].file])[log[i].entry])
                    \notin StandardOperators)
          => log[i].event = "notCandidate"
    /\ \A k \in 1..Len(commits) :
          commits[k].type = "python" =>
              LET old == Split(commits[k].original.text, "\n")
                  new == Split(commits[k].content.text, "\n")
              IN  \A i \in 1..Len(old) :
                      OperatorOf(old[i]) \notin StandardOperators => new[i] = old[i]

\* the outdated dependencies reported for manifest f
FileDeps(f) ==
    {d \in SeqToSet(allDependencies) :
        \E i \in 1..Len(log) :
            log[i].file = f /\ log[i].event = "outdated" /\ log[i].name = d.name}

\* manifest f has an approved update
HasApproved(f) == \E d \in FileDeps(f) : dryRun \/ d.securityCheck.safe

PullOpenedFor(f) == \E k \in 1..Len(pulls) : pulls[k].path = packageFiles[f].path

\* C25: when package.json and requirements.txt both have an approved
\* update, the processing of the repository opens a pull request for each.
C25_PullForEachManifest ==
    (RepositoryEnded /\ Len(packageFiles) = 2 /\ HasApproved(1) /\ HasApproved(2))
        => (PullOpenedFor(1) /\ PullOpenedFor(2))

\* an npm category of a commit: an entry is changed exactly when an update
\* was approved for its own declared expression
NpmOwnEntriesOnly(before, after, deps) ==
    \A i \in 1..Len(before) :
        after[i] # before[i] <=> ApprovedFor(deps, before[i].name, before[i].version)

\* a python manifest of a commit: a line is changed exactly when an update
\* was approved for its own declared expression
PythonOwnLinesOnly(before, after, deps) ==
    LET old == Split(before, "\n")
        new == Split(after, "\n")
    IN  \A i \in 1..Len(old) :
            LET m == MatchRequirement(old[i])
            IN  new[i] # old[i] <=>
                    (~BlankOrComment(old[i]) /\ m.matched
                        /\ ApprovedFor(deps, m.name, m.operator \o m.version))

\* C26: the entries a rewrite changes are exactly the entries that were
\* evaluated and approved, also for a name in both npm categories and for
\* a python name on two lines: an entry is rewritten only if its own
\* declared expression was compared and given a safe verdict.
C26_OwnEntriesOnly ==
    ~dryRun =>
        \A k \in 1..Len(commits) :
            IF commits[k].type = "npm"
            THEN /\ NpmOwnEntriesOnly(commits[k].original.json.dependencies,
                                       commits[k].content.json.dependencies, commits[k].deps)
                 /\ NpmOwnEntriesOnly(commits[k].original.json.devDependencies,
                                       commits[k].content.json.devDependencies, commits[k].deps)
            ELSE PythonOwnLinesOnly(commits[k].original.text, commits[k].content.text,
                                    commits[k].deps)

\* C28: createUpdatePR creates the branch, then commits the rewritten
\* manifest, then opens the pull request; a pull request is opened only
\* after the branch creation and the commit succeeded, and a failed step
\* ends createUpdatePR with no later step executed.
C28_WriteBackOrder ==
    /\ [](/\ (commits # <<>> => branchExists)
           /\ Len(pulls) <= Len(commits)
           /\ \A k \in 1..Len(pulls) :
                 commits[k].path = pulls[k].path /\ commits[k].deps = pulls[k].deps)
    /\ [][/\ ((branchExists' /\ ~branchExists) => (pc = "branch" /\ pc' = "commit"))
           /\ (Len(commits') > Len(commits)
                 => (pc = "commit" /\ branchExists /\ pc' = "pull"))
           /\ (Len(pulls') > Len(pulls)
                 => (pc = "pull" /\ branchExists /\ Len(commits) = Len(pulls) + 1))
           /\ ((repoError' \in WriteBackStages /\ repoError = "none")
                 => (pc' = "run" /\ UNCHANGED <<branchExists, commits, pulls>>))]_vars

\* a pull request opened after its branch and its commit
C28_Witness ==
    /\ branchExists
    /\ Len(commits) = 1
    /\ Len(pulls) = 1
    /\ pulls[1].path = commits[1].path
    /\ pc = "file"

\* C29: a dependency the audit report lists as safe (updated) is in a pull
\* request that was opened in the processing of the same repository.
C29_ReportedSafeHasPull ==
    report.generated =>
        \A d \in SeqToSet(report.deps) :
            d.securityCheck.safe =>
                \E k \in 1..Len(pulls) : d \in SeqToSet(pulls[k].deps)

\* a report with a safe and an unsafe dependency, after one pull request
C29_Witness ==
    /\ report.generated
    /\ \E d \in SeqToSet(report.deps) : d.securityCheck.safe
    /\ \E d \in SeqToSet(report.deps) : ~d.securityCheck.safe
    /\ Len(pulls) = 1

\* C30: in non-dry-run mode a manifest whose outdated dependencies all
\* lack a safe verdict gets no commit and no pull request, and the report
\* of the repository is generated and lists these dependencies.
C30_UnsafeOnlyStillReported ==
    (~dryRun /\ RepositoryEnded) =>
        \A f \in 1..Len(packageFiles) :
            (FileDeps(f) # {} /\ \A d \in FileDeps(f) : ~d.securityCheck.safe) =>
                /\ \A k \in 1..Len(commits) : commits[k].path # packageFiles[f].path
                /\ ~PullOpenedFor(f)
                /\ report.generated
                /\ FileDeps(f) \subseteq SeqToSet(report.deps)

----------------------------------------------------------------------------
(* Claims about the command-line script (SpecCli)                          *)

\* the path segments of a locator: what is left of it after the scheme and
\* the host github.com, split at "/", blank parts dropped
LocatorSegments(locator) ==
    LET noScheme == IF StartsWith(locator, Chars("https://"))
                    THEN SubSeq(locator, 9, Len(locator))
                    ELSE IF StartsWith(locator, Chars("http://"))
                    THEN SubSeq(locator, 8, Len(locator))
                    ELSE locator
        path == IF noScheme = Chars("github.com") \/ StartsWith(noScheme, Chars("github.com/"))
                THEN SubSeq(noScheme, 11, Len(noScheme))
                ELSE noScheme
    IN  SelectSeq(Split(path, "/"), NonBlankPart)

\* parseRepoUrl has been called and the process has moved on
LocatorHandled == cPc \in {"parsed", "constructed", "completed", "exited"} /\ MissingVars(cEnv) = {}

\* the three forms of a locator are normalised to the same pair
C24_SamePair ==
    \A o \in CliOwners, r \in CliRepos :
        (LocatorHandled /\ cOptions.repo \in LocatorForms(o, r))
            => cTarget = [owner |-> o, repo |-> r]

\* a missing credential or a short locator ends the process with a non-zero
\* code before the bot is constructed or anything is processed
C24_FatalBeforeBot ==
    (cPc # "idle" /\ (MissingVars(cEnv) # {} \/ Len(LocatorSegments(cOptions.repo)) < 2))
        => /\ cBot = NoBot
           /\ ~cRan
           /\ cPc \in {"start", "main", "exited"}
           /\ (MissingVars(cEnv) # {} => cPc # "main")
           /\ (cPc = "exited" => cExit = <<1>>)

\* C24: the CLI normalizes a repository locator given as owner/repo,
\* github.com/owner/repo or https://github.com/owner/repo to the same
\* {owner, repo} pair, and a missing credential or a locator with fewer
\* than two path segments ends the process with a non-zero exit before the
\* bot is constructed or any repository is processed.
C24_CliStartup == C24_SamePair /\ C24_FatalBeforeBot

====
